---- MODULE Spec2Model ----
(***************************************************************************)
(* Keyword filter bot (src/main.py): the filter store, the add_filter,     *)
(* del_filter and list_filters commands, the handle_message matcher and    *)
(* the extract_buttons codec.                                              *)
(*                                                                         *)
(* Python strings are sequences of one-character strings.  None is the     *)
(* one-element sequence <<"None">>, whose element is no character.         *)
(***************************************************************************)
EXTENDS Integers, Sequences, FiniteSets, TLC

None == <<"None">>

\* Python truthiness of an optional string: neither None nor "".
Truthy(s) == s # None /\ s # <<>>

\* str.isspace() of one character.
IsSpace(c) == c \in {" ", "\n"}

\* str.lower() of one character, over the letters the inputs use.
LowerChar(c) ==
  CASE c = "A" -> "a"
    [] c = "B" -> "b"
    [] c = "H" -> "h"
    [] c = "I" -> "i"
    [] c = "O" -> "o"
    [] OTHER -> c

\* str.lower()
Lower(s) == [i \in 1..Len(s) |-> LowerChar(s[i])]

\* s[i:i+len(p)] == p
OccursAt(s, p, i) ==
  /\ i >= 1
  /\ i + Len(p) - 1 <= Len(s)
  /\ \A j \in 1..Len(p) : s[i + j - 1] = p[j]

\* str.find(p), 1-based; 0 when p does not occur.
Find(s, p) ==
  IF \E i \in 1..(Len(s) + 1) : OccursAt(s, p, i)
  THEN CHOOSE i \in 1..(Len(s) + 1) :
         /\ OccursAt(s, p, i)
         /\ \A j \in 1..(i - 1) : ~OccursAt(s, p, j)
  ELSE 0

\* p in s
Contains(s, p) == Find(s, p) # 0

\* s.replace(p, "", 1) for a non-empty p
ReplaceFirst(s, p) ==
  LET i == Find(s, p)
  IN  IF i = 0 THEN s
      ELSE SubSeq(s, 1, i - 1) \o SubSeq(s, i + Len(p), Len(s))

\* Index of the first non-space character, Len(s)+1 when there is none.
FirstNonSpace(s) ==
  IF \E i \in 1..Len(s) : ~IsSpace(s[i])
  THEN CHOOSE i \in 1..Len(s) :
         /\ ~IsSpace(s[i])
         /\ \A j \in 1..(i - 1) : IsSpace(s[j])
  ELSE Len(s) + 1

\* Index of the last non-space character, 0 when there is none.
LastNonSpace(s) ==
  IF \E i \in 1..Len(s) : ~IsSpace(s[i])
  THEN CHOOSE i \in 1..Len(s) :
         /\ ~IsSpace(s[i])
         /\ \A j \in (i + 1)..Len(s) : IsSpace(s[j])
  ELSE 0

\* str.lstrip()
LStrip(s) == SubSeq(s, FirstNonSpace(s), Len(s))

\* str.strip()
Strip(s) == SubSeq(s, FirstNonSpace(s), LastNonSpace(s))

\* Index of the first space at or after i, Len(s)+1 when there is none.
NextSpace(s, i) ==
  IF \E j \in i..Len(s) : IsSpace(s[j])
  THEN CHOOSE j \in i..Len(s) :
         /\ IsSpace(s[j])
         /\ \A k \in i..(j - 1) : ~IsSpace(s[k])
  ELSE Len(s) + 1

\* str.split()[0] of a string with at least one non-space character.
FirstWord(s) ==
  LET b == FirstNonSpace(s)
  IN  SubSeq(s, b, NextSpace(s, b) - 1)

\* len(s.split()) > 0
HasWord(s) == FirstNonSpace(s) <= Len(s)

(***************************************************************************)
(* extract_buttons: the pattern \[([^\]]+)\]\(buttonurl:([^)]+)\)          *)
(***************************************************************************)
ButtonUrl == <<"(", "b", "u", "t", "t", "o", "n", "u", "r", "l", ":">>

\* Index of the first occurrence of character c at or after i, 0 when none.
NextChar(s, c, i) ==
  IF \E j \in i..Len(s) : s[j] = c
  THEN CHOOSE j \in i..Len(s) :
         /\ s[j] = c
         /\ \A k \in i..(j - 1) : s[k] # c
  ELSE 0

\* The match of the pattern that starts at position i, as
\* [end, label, url]; end = 0 when the pattern does not match at i.
\* [^\]]+ runs to the first "]" and [^)]+ to the first ")", so the match
\* at a position is unique.
NoMatch == [end |-> 0, label |-> <<>>, url |-> <<>>]

MatchAt(s, i) ==
  IF i > Len(s) \/ s[i] # "[" THEN NoMatch
  ELSE
    LET j == NextChar(s, "]", i + 1)
    IN  IF j = 0 \/ j = i + 1 THEN NoMatch
        ELSE IF ~OccursAt(s, ButtonUrl, j + 1) THEN NoMatch
        ELSE
          LET u == j + 1 + Len(ButtonUrl)
              k == NextChar(s, ")", u)
          IN  IF k = 0 \/ k = u THEN NoMatch
              ELSE [end |-> k, label |-> SubSeq(s, i + 1, j - 1),
                    url |-> SubSeq(s, u, k - 1)]

\* findall collecting the matches last to first.
RECURSIVE FindAll_reversed(_, _)
FindAll_reversed(s, i) ==
  IF i > Len(s) THEN <<>>
  ELSE
    LET m == MatchAt(s, i)
    IN  IF m.end # 0
        THEN FindAll_reversed(s, m.end + 1) \o <<(<<m.label, m.url>>)>>
        ELSE FindAll_reversed(s, i + 1)

\* re.findall(pattern, text): the groups of the non-overlapping matches,
\* scanned left to right from position i.
RECURSIVE FindAll(_, _)
FindAll(s, i) ==
  IF i > Len(s) THEN <<>>
  ELSE
    LET m == MatchAt(s, i)
    IN  IF m.end # 0 THEN <<(<<m.label, m.url>>)>> \o FindAll(s, m.end + 1)
        ELSE FindAll(s, i + 1)

\* re.sub(pattern, '', text): the text with the same matches removed.
RECURSIVE SubAll(_, _)
SubAll(s, i) ==
  IF i > Len(s) THEN <<>>
  ELSE
    LET m == MatchAt(s, i)
    IN  IF m.end # 0 THEN SubAll(s, m.end + 1)
        ELSE <<s[i]>> \o SubAll(s, i + 1)

\* extract_buttons without the .strip() of the clean text.
extract_buttons_nostrip(text) ==
  IF ~Truthy(text) THEN [clean |-> text, buttons |-> <<>>]
  ELSE [clean |-> SubAll(text, 1), buttons |-> FindAll(text, 1)]

extract_buttons(text) ==
  IF ~Truthy(text) THEN [clean |-> text, buttons |-> <<>>]
  ELSE [clean |-> Strip(SubAll(text, 1)), buttons |-> FindAll(text, 1)]

(***************************************************************************)
(* The filter documents and the collection filters_collection.             *)
(***************************************************************************)
Kinds == <<"photo", "video", "document", "animation", "sticker", "audio", "voice">>

\* The value of file_type when it is None.
NoType == "None"

\* The handle the transport issued for the media of kind k
\* (replied_msg.photo[-1].file_id, replied_msg.video.file_id, ...).
FileId(k) == <<"file", k>>

\* The filter_data dictionary as add_filter initialises it.
EmptyFilter(chat_id, keyword) ==
  [chat_id |-> chat_id, keyword |-> keyword, text |-> None, file_id |-> None,
   file_type |-> NoType, caption |-> None, buttons |-> <<>>]

\* "No document": the value of a lookup that found nothing.
NoDoc == EmptyFilter(0, <<>>)

\* The query {'chat_id': chat_id, 'keyword': keyword}
KeyMatches(doc, chat_id, keyword) ==
  doc.chat_id = chat_id /\ doc.keyword = keyword

\* The documents of coll the query {chat_id, keyword} selects.
KeyDocs(coll, chat_id, keyword) ==
  {d \in coll : KeyMatches(d, chat_id, keyword)}

\* replace_one as insert_one: the document is added and none is replaced.
replace_one_insert(coll, chat_id, keyword, doc) == coll \cup {doc}

\* replace_one as update_one with $set of the fields that are not None:
\* the fields doc leaves empty keep the values of the replaced document.
replace_one_merge(coll, chat_id, keyword, doc) ==
  LET hit == KeyDocs(coll, chat_id, keyword)
      old == CHOOSE d \in hit : TRUE
  IN  IF hit = {} THEN coll \cup {doc}
      ELSE (coll \ {old}) \cup
           {[doc EXCEPT !.text = IF doc.text = None THEN old.text ELSE doc.text,
                        !.caption = IF doc.caption = None THEN old.caption
                                    ELSE doc.caption,
                        !.file_id = IF doc.file_id = None THEN old.file_id
                                    ELSE doc.file_id,
                        !.file_type = IF doc.file_type = NoType THEN old.file_type
                                      ELSE doc.file_type]}

\* filters_collection.replace_one({chat_id, keyword}, doc, upsert=True):
\* one matching document is replaced whole; with no match the document
\* is inserted.
replace_one(coll, chat_id, keyword, doc) ==
  LET hit == KeyDocs(coll, chat_id, keyword)
  IN  IF hit = {} THEN coll \cup {doc}
      ELSE (coll \ {CHOOSE d \in hit : TRUE}) \cup {doc}

\* delete_one with the query {'keyword': keyword}: the conversation is
\* not part of the key.
delete_one_anychat(coll, chat_id, keyword) ==
  LET hit == {d \in coll : d.keyword = keyword}
  IN  IF hit = {} THEN [coll |-> coll, deleted_count |-> 0]
      ELSE [coll |-> coll \ {CHOOSE d \in hit : TRUE}, deleted_count |-> 1]

\* delete_one as delete_many with the query {'chat_id': chat_id}: every
\* record of the conversation goes when the key is stored.
delete_one_chat(coll, chat_id, keyword) ==
  LET hit == KeyDocs(coll, chat_id, keyword)
  IN  IF hit = {} THEN [coll |-> coll, deleted_count |-> 0]
      ELSE [coll |-> {d \in coll : d.chat_id # chat_id}, deleted_count |-> 1]

\* filters_collection.delete_one({chat_id, keyword}): the collection
\* afterwards and result.deleted_count.
delete_one(coll, chat_id, keyword) ==
  LET hit == KeyDocs(coll, chat_id, keyword)
  IN  IF hit = {} THEN [coll |-> coll, deleted_count |-> 0]
      ELSE [coll |-> coll \ {CHOOSE d \in hit : TRUE}, deleted_count |-> 1]

\* find with the query {}: the documents of every conversation.
find_all(coll, chat_id) == coll

\* filters_collection.find({'chat_id': chat_id}): the documents of the
\* conversation.
find(coll, chat_id) == {d \in coll : d.chat_id = chat_id}

\* The orders in which a cursor may yield the documents of docs: the
\* query names no sort, so the order is the store's choice.
CursorOrders(docs) ==
  {o \in [1..Cardinality(docs) -> docs] :
     \A i, j \in 1..Cardinality(docs) : i # j => o[i] # o[j]}

(***************************************************************************)
(* add_filter: the record built from the command and the replied message.  *)
(***************************************************************************)
\* update.message.text.split(None, 1)[1] if len(update.message.text.split()) > 1
\* else "": the text after the command word, leading spaces dropped.
CommandText(text) ==
  LET b == FirstNonSpace(text)
      rest == LStrip(SubSeq(text, NextSpace(text, b), Len(text)))
  IN  rest

\* The handler without its `if not context.args` check.
HasArgs_always(text) == TRUE

\* context.args: not empty iff a word follows the command word.
HasArgs(text) == HasWord(CommandText(text))

\* context.args[0]
Arg0(text) == FirstWord(CommandText(text))

\* _, cmd_buttons = extract_buttons(command_text.replace(keyword, "", 1).strip())
CmdButtons(text, keyword) ==
  extract_buttons(Strip(ReplaceFirst(CommandText(text), keyword))).buttons

\* The last populated media slot in the order of the chain: what a chain
\* of independent if statements would leave in filter_data.
FirstSlot_last(media) ==
  IF \E i \in 1..Len(Kinds) : Kinds[i] \in media
  THEN Kinds[CHOOSE i \in 1..Len(Kinds) :
               /\ Kinds[i] \in media
               /\ \A j \in (i + 1)..Len(Kinds) : Kinds[j] \notin media]
  ELSE NoType

\* The first populated media slot of the replied message in the order
\* the elif chain tests them; NoType when none is populated.
FirstSlot(media) ==
  IF \E i \in 1..Len(Kinds) : Kinds[i] \in media
  THEN Kinds[CHOOSE i \in 1..Len(Kinds) :
               /\ Kinds[i] \in media
               /\ \A j \in 1..(i - 1) : Kinds[j] \notin media]
  ELSE NoType

\* filter_data after the "Handle different message types" and "Handle
\* media" blocks.  replied_msg.text is truthy exactly when text_html is,
\* and replied_msg.caption exactly when caption_html is.
BuildFilter(chat_id, text, replied_msg) ==
  LET keyword == Lower(Arg0(text))
      cmd_buttons == CmdButtons(text, keyword)
      base == EmptyFilter(chat_id, keyword)
      body ==
        IF Truthy(replied_msg.text_html)
        THEN LET e == extract_buttons(replied_msg.text_html)
             IN  [base EXCEPT !.text = e.clean,
                              !.buttons = IF cmd_buttons # <<>> THEN cmd_buttons
                                          ELSE e.buttons]
        ELSE IF Truthy(replied_msg.caption_html)
        THEN LET e == extract_buttons(replied_msg.caption_html)
             IN  [base EXCEPT !.caption = e.clean,
                              !.buttons = IF cmd_buttons # <<>> THEN cmd_buttons
                                          ELSE e.buttons]
        ELSE base
      kind == FirstSlot(replied_msg.media)
  IN  IF kind = NoType THEN body
      ELSE [body EXCEPT !.file_id = FileId(kind), !.file_type = kind]

(***************************************************************************)
(* handle_message: the scan and the dispatch of the matched record.        *)
(***************************************************************************)
\* build_buttons: None for no buttons, else one row per button.
build_buttons(buttons) ==
  IF buttons = <<>> THEN [present |-> FALSE, keyboard |-> <<>>]
  ELSE [present |-> TRUE,
        keyboard |-> [i \in 1..Len(buttons) |-> <<buttons[i]>>]]

\* The send with the caption passed for every media kind, sticker too.
SendFor_stickercaption(filter_doc, chat_id, failed) ==
  LET reply_markup == build_buttons(filter_doc.buttons)
  IN  IF filter_doc.file_type # NoType
      THEN <<[method |-> filter_doc.file_type, chat_id |-> chat_id,
              content |-> filter_doc.file_id,
              caption |-> filter_doc.caption,
              has_caption |-> TRUE,
              reply_markup |-> reply_markup, failed |-> failed]>>
      ELSE IF Truthy(filter_doc.text)
      THEN <<[method |-> "text", chat_id |-> chat_id,
              content |-> filter_doc.text, caption |-> None,
              has_caption |-> FALSE,
              reply_markup |-> reply_markup, failed |-> failed]>>
      ELSE <<>>

\* The send with a second attempt after the transport raised.
SendFor_retry(filter_doc, chat_id, failed) ==
  LET reply_markup == build_buttons(filter_doc.buttons)
      call == [method |-> IF filter_doc.file_type # NoType
                          THEN filter_doc.file_type ELSE "text",
               chat_id |-> chat_id,
               content |-> IF filter_doc.file_type # NoType
                           THEN filter_doc.file_id ELSE filter_doc.text,
               caption |-> IF filter_doc.file_type \notin {NoType, "sticker"}
                           THEN filter_doc.caption ELSE None,
               has_caption |-> filter_doc.file_type \notin {NoType, "sticker"},
               reply_markup |-> reply_markup, failed |-> failed]
  IN  IF filter_doc.file_type = NoType /\ ~Truthy(filter_doc.text) THEN <<>>
      ELSE IF failed THEN <<call, call>>
      ELSE <<call>>

\* The send the try block makes for filter_doc, as a sequence of at most
\* one call; failed says whether the transport raised, which the except
\* clause absorbs.
SendFor(filter_doc, chat_id, failed) ==
  LET reply_markup == build_buttons(filter_doc.buttons)
  IN  IF filter_doc.file_type # NoType
      THEN <<[method |-> filter_doc.file_type, chat_id |-> chat_id,
              content |-> filter_doc.file_id,
              caption |-> IF filter_doc.file_type # "sticker"
                          THEN filter_doc.caption ELSE None,
              has_caption |-> filter_doc.file_type # "sticker",
              reply_markup |-> reply_markup, failed |-> failed]>>
      ELSE IF Truthy(filter_doc.text)
      THEN <<[method |-> "text", chat_id |-> chat_id,
              content |-> filter_doc.text, caption |-> None,
              has_caption |-> FALSE,
              reply_markup |-> reply_markup, failed |-> failed]>>
      ELSE <<>>

\* The loop without its break: every document whose keyword is in text is
\* dispatched.
RECURSIVE ScanFrom_nobreak(_, _, _, _, _)
ScanFrom_nobreak(all_filters, i, text, chat_id, failed) ==
  IF i > Len(all_filters) THEN [matched |-> NoDoc, sends |-> <<>>]
  ELSE LET rest == ScanFrom_nobreak(all_filters, i + 1, text, chat_id, failed)
       IN  IF Contains(text, all_filters[i].keyword)
           THEN [matched |-> all_filters[i],
                 sends |-> SendFor(all_filters[i], chat_id, failed) \o rest.sends]
           ELSE rest

\* The loop with == in place of in: the keyword has to be the whole text.
RECURSIVE ScanFrom_equal(_, _, _, _, _)
ScanFrom_equal(all_filters, i, text, chat_id, failed) ==
  IF i > Len(all_filters) THEN [matched |-> NoDoc, sends |-> <<>>]
  ELSE IF all_filters[i].keyword = text
       THEN [matched |-> all_filters[i],
             sends |-> SendFor(all_filters[i], chat_id, failed)]
       ELSE ScanFrom_equal(all_filters, i + 1, text, chat_id, failed)

\* The loop with its break only after a send that went through: a match
\* that sends nothing, or whose send raised, is followed by the next one.
RECURSIVE ScanFrom_untilsent(_, _, _, _, _)
ScanFrom_untilsent(all_filters, i, text, chat_id, failed) ==
  IF i > Len(all_filters) THEN [matched |-> NoDoc, sends |-> <<>>]
  ELSE LET rest == ScanFrom_untilsent(all_filters, i + 1, text, chat_id, failed)
           sends == SendFor(all_filters[i], chat_id, failed)
       IN  IF ~Contains(text, all_filters[i].keyword) THEN rest
           ELSE IF sends # <<>> /\ ~failed
           THEN [matched |-> all_filters[i], sends |-> sends]
           ELSE [matched |-> all_filters[i], sends |-> sends \o rest.sends]

\* The for loop over the cursor from position i: the first document whose
\* keyword is in text is dispatched and the loop breaks.
RECURSIVE ScanFrom(_, _, _, _, _)
ScanFrom(all_filters, i, text, chat_id, failed) ==
  IF i > Len(all_filters) THEN [matched |-> NoDoc, sends |-> <<>>]
  ELSE IF Contains(text, all_filters[i].keyword)
       THEN [matched |-> all_filters[i],
             sends |-> SendFor(all_filters[i], chat_id, failed)]
       ELSE ScanFrom(all_filters, i + 1, text, chat_id, failed)

(***************************************************************************)
(* The updates the bot is driven with.                                     *)
(***************************************************************************)
\* Largest number of documents the collection holds in the model.
MaxStore == 2

Chats == {1, 2}

\* The markup of one button.
Markup(label, url) == <<"[">> \o label \o <<"]">> \o ButtonUrl \o url \o <<")">>

RECURSIVE Concat(_)
Concat(ss) == IF ss = <<>> THEN <<>> ELSE Head(ss) \o Concat(Tail(ss))

\* The markup of each button of a list, in order.
MarkupOf(buttons) ==
  Concat([i \in 1..Len(buttons) |-> Markup(buttons[i][1], buttons[i][2])])

\* The command words; the handlers never look inside them.
AddWord == <<"/add_filter">>

DelWord == <<"/del_filter">>

\* The /add_filter messages: no argument; keywords hi and H; a lower-case
\* keyword followed by a button; an upper-case keyword followed by a
\* button whose label holds the lower-cased keyword.
AddTexts ==
  { AddWord,
    AddWord \o <<" ", "h", "i">>,
    AddWord \o <<" ", "H">>,
    AddWord \o <<" ", "h", " ">> \o Markup(<<"B">>, <<"x">>),
    AddWord \o <<" ", "H", " ">> \o Markup(<<"h">>, <<"x">>) }

\* The /del_filter messages.
DelTexts ==
  { DelWord,
    DelWord \o <<" ", "h", "i">>,
    DelWord \o <<" ", "h">>,
    DelWord \o <<" ", "H">> }

\* Incoming plain texts.
Texts == { <<"o", "h", " ", "H", "I">>, <<"H">>, <<"y", "o">> }

\* update.message.reply_to_message is None.
NoReply == [present |-> FALSE, text_html |-> None, caption_html |-> None, media |-> {}]

Msg(text_html, caption_html, media) ==
  [present |-> TRUE, text_html |-> text_html, caption_html |-> caption_html,
   media |-> media]

\* Replied text messages: a base text followed by the markup of buttons.
TextBodies ==
  { [base |-> <<"y", "o", " ">>, buttons |-> <<(<<(<<"O">>), (<<"y">>)>>)>>],
    [base |-> <<"y", "[", "o">>, buttons |-> <<(<<(<<"O">>), (<<"y">>)>>)>>] }

TextMsg(b) == Msg(b.base \o MarkupOf(b.buttons), None, {})

\* Replied messages: optional text, optional caption, populated media slots.
Replies ==
  { TextMsg(b) : b \in TextBodies } \cup
  { Msg(None, <<"c", " ">> \o Markup(<<"O">>, <<"y">>), {"photo"}),
    Msg(None, <<"c">>, {"sticker"}),
    Msg(None, None, {}) }

\* Largest number of media slots populated in one replied message.
MaxSlots == 2

\* Replied messages of every shape: with or without text, with or without
\* caption, with up to MaxSlots populated media slots.
AnyReplies ==
  { Msg(t, c, m) :
      t \in { None, <<"y", "o", " ">> \o Markup(<<"O">>, <<"y">>) },
      c \in { None, <<"c", " ">> \o Markup(<<"O">>, <<"y">>) },
      m \in { k \in SUBSET {Kinds[i] : i \in 1..Len(Kinds)} :
                Cardinality(k) <= MaxSlots } }

\* BuildFilter over the /add_filter updates of the model.
filter_data_of ==
  [chat_id \in Chats, text \in AddTexts, replied_msg \in Replies \cup AnyReplies |->
     BuildFilter(chat_id, text, replied_msg)]

(***************************************************************************)
(* State.                                                                  *)
(***************************************************************************)
VARIABLES
  store,    \* filters_collection
  last,     \* the update handled last and what its handler computed
  replies,  \* the reply_text calls of the last command handler
  sent,     \* the sends of the last handle_message
  exc,      \* whether a store call of the last handler raised, and whether
            \* the exception left the handler
  cpc,      \* codec runs: position
  craw,     \* codec runs: base text, buttons embedded, raw text
  cout1,    \* codec runs: extract_buttons(raw)
  cout2,    \* codec runs: extract_buttons of the first clean text
  tasks,    \* concurrent updates: each handler's position and locals
  writes    \* concurrent updates: the tasks in the order of their store calls

vars == <<store, last, replies, sent, exc, cpc, craw, cout1, cout2, tasks, writes>>

botVars == <<store, last, replies, sent, exc>>

codecVars == <<cpc, craw, cout1, cout2>>

taskVars == <<tasks, writes>>

Update(op, chat_id, text, replied, built, scan, matched, prior) ==
  [op |-> op, chat_id |-> chat_id, text |-> text, replied |-> replied,
   built |-> built, scan |-> scan, matched |-> matched, prior |-> prior]

Reply(kind, keywords) == [kind |-> kind, keywords |-> keywords]

NoExtract == [clean |-> <<>>, buttons |-> <<>>]

NoRaw == [base |-> <<>>, buttons |-> <<>>, raw |-> <<>>]

\* No store call raised.
NoExc == [store_error |-> FALSE, propagated |-> FALSE]

BotInit ==
  /\ store = {}
  /\ exc = NoExc
  /\ last = Update("init", 0, <<>>, NoReply, NoDoc, <<>>, NoDoc, "none")
  /\ replies = <<>>
  /\ sent = <<>>

CodecIdle ==
  /\ cpc = "idle"
  /\ craw = NoRaw
  /\ cout1 = NoExtract
  /\ cout2 = NoExtract

\* No update is being handled concurrently.
NoTasks ==
  /\ tasks = <<>>
  /\ writes = <<>>

Init == BotInit /\ CodecIdle /\ NoTasks

\* How the document stored under the key before an add_filter relates to
\* the one the command built.
PriorOf(coll, doc) ==
  LET hit == KeyDocs(coll, doc.chat_id, doc.keyword)
      old == CHOOSE d \in hit : TRUE
  IN  IF hit = {} THEN "none"
      ELSE IF old = doc THEN "same"
      ELSE IF /\ old.text # doc.text
              /\ old.caption # doc.caption
              /\ old.file_id # doc.file_id
              /\ old.file_type # doc.file_type
              /\ old.buttons # doc.buttons
           THEN "all_differ"
      ELSE "differs"

\* add_filter
AddFilter(chat_id, text, replied_msg) ==
  /\ IF ~replied_msg.present
     THEN /\ replies' = <<Reply("need_reply", <<>>)>>
          /\ last' = Update("add_filter", chat_id, text, replied_msg, NoDoc, <<>>,
                            NoDoc, "none")
          /\ store' = store
     ELSE IF ~HasArgs(text)
     THEN /\ replies' = <<Reply("usage", <<>>)>>
          /\ last' = Update("add_filter", chat_id, text, replied_msg, NoDoc, <<>>,
                            NoDoc, "none")
          /\ store' = store
     ELSE LET filter_data == filter_data_of[chat_id, text, replied_msg]
          IN  /\ store' = replace_one(store, chat_id, filter_data.keyword, filter_data)
              /\ Cardinality(store') <= MaxStore
              /\ replies' = <<Reply("saved", <<filter_data.keyword>>)>>
              /\ last' = Update("add_filter", chat_id, text, replied_msg, filter_data,
                                <<>>, NoDoc, PriorOf(store, filter_data))
  /\ sent' = <<>>
  /\ exc' = NoExc
  /\ UNCHANGED <<codecVars, taskVars>>

\* del_filter
DelFilter(chat_id, text) ==
  /\ IF ~HasArgs(text)
     THEN /\ replies' = <<Reply("usage", <<>>)>>
          /\ store' = store
     ELSE LET keyword == Lower(Arg0(text))
              result == delete_one(store, chat_id, keyword)
          IN  /\ store' = result.coll
              /\ replies' = IF result.deleted_count > 0
                            THEN <<Reply("deleted", <<keyword>>)>>
                            ELSE <<Reply("not_found", <<keyword>>)>>
  /\ last' = Update("del_filter", chat_id, text, NoReply, NoDoc, <<>>, NoDoc, "none")
  /\ sent' = <<>>
  /\ exc' = NoExc
  /\ UNCHANGED <<codecVars, taskVars>>

\* list_filters; all_filters: the cursor's order.
ListFilters(chat_id, all_filters) ==
  LET keywords == [i \in 1..Len(all_filters) |-> all_filters[i].keyword]
  IN  /\ replies' = IF keywords # <<>> THEN <<Reply("list", keywords)>>
                    ELSE <<Reply("no_filters", <<>>)>>
      /\ last' = Update("list_filters", chat_id, <<>>, NoReply, NoDoc, all_filters,
                        NoDoc, "none")
      /\ sent' = <<>>
      /\ UNCHANGED store
      /\ exc' = NoExc
      /\ UNCHANGED <<codecVars, taskVars>>

\* handle_message; all_filters: the cursor's order; failed: the transport
\* raises on the send.
HandleMessage(chat_id, msg_text, all_filters, failed) ==
  /\ IF ~Truthy(msg_text)
     THEN /\ sent' = <<>>
          /\ last' = Update("handle_message", chat_id, msg_text, NoReply, NoDoc, <<>>,
                            NoDoc, "none")
     ELSE LET text == Lower(msg_text)
              r == ScanFrom(all_filters, 1, text, chat_id, failed)
          IN  /\ sent' = r.sends
              /\ last' = Update("handle_message", chat_id, msg_text, NoReply, NoDoc,
                                all_filters, r.matched, "none")
  /\ replies' = <<>>
  /\ UNCHANGED store
  /\ exc' = NoExc
  /\ UNCHANGED <<codecVars, taskVars>>

Next ==
  \/ \E c \in Chats, t \in AddTexts, m \in Replies \cup {NoReply} : AddFilter(c, t, m)
  \/ \E c \in Chats, t \in DelTexts : DelFilter(c, t)
  \/ \E c \in Chats : \E o \in CursorOrders(find(store, c)) : ListFilters(c, o)
  \/ \E c \in Chats, t \in Texts, f \in BOOLEAN :
       \E o \in CursorOrders(find(store, c)) : HandleMessage(c, t, o, f)

Spec == Init /\ [][Next]_vars

(***************************************************************************)
(* Store calls that raise.  A pymongo call that cannot reach the server    *)
(* raises before anything is written; no handler wraps its store call in   *)
(* a try, so the exception leaves the handler at that line.                *)
(***************************************************************************)
\* A store call raised and the exception left the handler.
Propagated == [store_error |-> TRUE, propagated |-> TRUE]

\* add_filter when replace_one raises: the lines up to 129 ran, the reply
\* of line 131 is not reached.
AddFilterStoreFails(chat_id, text, replied_msg) ==
  /\ replied_msg.present
  /\ HasArgs(text)
  /\ last' = Update("add_filter", chat_id, text, replied_msg,
                    filter_data_of[chat_id, text, replied_msg], <<>>, NoDoc, "none")
  /\ exc' = Propagated
  /\ replies' = <<>>
  /\ sent' = <<>>
  /\ UNCHANGED <<store, codecVars, taskVars>>

\* del_filter when delete_one raises: neither reply is reached.
DelFilterStoreFails(chat_id, text) ==
  /\ HasArgs(text)
  /\ last' = Update("del_filter", chat_id, text, NoReply, NoDoc, <<>>, NoDoc, "none")
  /\ exc' = Propagated
  /\ replies' = <<>>
  /\ sent' = <<>>
  /\ UNCHANGED <<store, codecVars, taskVars>>

\* list_filters when the cursor raises in the comprehension of line 154.
ListFiltersStoreFails(chat_id) ==
  /\ last' = Update("list_filters", chat_id, <<>>, NoReply, NoDoc, <<>>, NoDoc, "none")
  /\ exc' = Propagated
  /\ replies' = <<>>
  /\ sent' = <<>>
  /\ UNCHANGED <<store, codecVars, taskVars>>

\* handle_message when the cursor raises in the for statement of line 175,
\* which is outside the try of line 179.
HandleMessageStoreFails(chat_id, msg_text) ==
  /\ Truthy(msg_text)
  /\ last' = Update("handle_message", chat_id, msg_text, NoReply, NoDoc, <<>>,
                    NoDoc, "none")
  /\ exc' = Propagated
  /\ replies' = <<>>
  /\ sent' = <<>>
  /\ UNCHANGED <<store, codecVars, taskVars>>

\* The conversations of the runs with store failures.
FaultChats == {1}

NextFaults ==
  \/ \E c \in FaultChats, t \in AddTexts, m \in Replies \cup {NoReply} : AddFilter(c, t, m)
  \/ \E c \in FaultChats, t \in DelTexts : DelFilter(c, t)
  \/ \E c \in FaultChats : \E o \in CursorOrders(find(store, c)) : ListFilters(c, o)
  \/ \E c \in FaultChats, t \in Texts, f \in BOOLEAN :
       \E o \in CursorOrders(find(store, c)) : HandleMessage(c, t, o, f)
  \/ \E c \in FaultChats, t \in AddTexts, m \in Replies : AddFilterStoreFails(c, t, m)
  \/ \E c \in FaultChats, t \in DelTexts : DelFilterStoreFails(c, t)
  \/ \E c \in FaultChats : ListFiltersStoreFails(c)
  \/ \E c \in FaultChats, t \in Texts : HandleMessageStoreFails(c, t)

SpecFaults == Init /\ [][NextFaults]_vars

(***************************************************************************)
(* The first /add_filter after the start, replying to a message of any     *)
(* shape.                                                                  *)
(***************************************************************************)
NextAuthor ==
  \E c \in Chats, t \in AddTexts, m \in AnyReplies \cup {NoReply} :
    store = {} /\ AddFilter(c, t, m)

SpecAuthor == Init /\ [][NextAuthor]_vars

(***************************************************************************)
(* Runs of extract_buttons alone: a raw text is put together from a base   *)
(* text and the markup of a list of buttons, extracted, and the clean text *)
(* extracted again.                                                        *)
(***************************************************************************)
\* Largest number of base pieces plus buttons in one raw text.
MaxPieces == 4

\* The base text is a concatenation of these.
Pieces ==
  { <<"[">>, <<" ">>, <<"a">>, <<"[", "a", "]">>, ButtonUrl \o <<"u", ")">> }

\* [label, url] pairs: two well-formed ones, one with an empty label, one
\* with an empty url.
Buttons ==
  { <<(<<"A">>), (<<"u">>)>>,
    <<(<<"[", "B">>), (<<"(", "v">>)>>,
    <<(<<>>), (<<"u">>)>>,
    <<(<<"A">>), (<<>>)>> }

SeqsUpTo(S, n) == UNION {[1..k -> S] : k \in 0..n}

Embed(base, buttons) ==
  /\ cpc = "idle"
  /\ cpc' = "raw"
  /\ craw' = [base |-> base, buttons |-> buttons, raw |-> base \o MarkupOf(buttons)]
  /\ UNCHANGED <<cout1, cout2>>
  /\ UNCHANGED <<botVars, taskVars>>

Extract ==
  /\ cpc = "raw"
  /\ cpc' = "once"
  /\ cout1' = extract_buttons(craw.raw)
  /\ UNCHANGED <<craw, cout2>>
  /\ UNCHANGED <<botVars, taskVars>>

ExtractAgain ==
  /\ cpc = "once"
  /\ cpc' = "twice"
  /\ cout2' = extract_buttons(cout1.clean)
  /\ UNCHANGED <<craw, cout1>>
  /\ UNCHANGED <<botVars, taskVars>>

CodecNext ==
  \/ \E ps \in SeqsUpTo(Pieces, MaxPieces) :
       \E bs \in SeqsUpTo(Buttons, MaxPieces - Len(ps)) : Embed(Concat(ps), bs)
  \/ Extract
  \/ ExtractAgain

SpecCodec == Init /\ [][CodecNext]_vars

(***************************************************************************)
(* Updates handled concurrently.  Each update is a task of the event loop, *)
(* which runs a task without interruption up to its next await: in         *)
(* add_filter the awaits are the reply_text calls, in handle_message the   *)
(* send of the matched document.  The store calls are synchronous.         *)
(***************************************************************************)
TaskIds == {"a1", "a2", "h"}

Task(handler, pc, chat_id, text, replied, failed, doc, out) ==
  [handler |-> handler, pc |-> pc, chat_id |-> chat_id, text |-> text,
   replied |-> replied, failed |-> failed, doc |-> doc, out |-> out]

\* /add_filter updates of conversation 1 waiting to be handled: keywords
\* hi, h and h, replying to a text, a photo with caption and a sticker.
AddTasks ==
  { Task("add_filter", "start", 1, t, m, FALSE, NoDoc, <<>>) :
      t \in { AddWord \o <<" ", "h", "i">>,
              AddWord \o <<" ", "H">>,
              AddWord \o <<" ", "h", " ">> \o Markup(<<"B">>, <<"x">>) },
      m \in { TextMsg([base |-> <<"y", "o", " ">>,
                       buttons |-> <<(<<(<<"O">>), (<<"y">>)>>)>>]),
              Msg(None, <<"c", " ">> \o Markup(<<"O">>, <<"y">>), {"photo"}),
              Msg(None, <<"c">>, {"sticker"}) } }

\* Text messages of conversation 1 waiting to be handled.
HandleTasks ==
  { Task("handle_message", "start", 1, t, NoReply, f, NoDoc, <<>>) :
      t \in Texts, f \in BOOLEAN }

\* Two /add_filter updates and one text message are pending.
InitTasks ==
  /\ BotInit
  /\ CodecIdle
  /\ tasks \in [a1 : AddTasks, a2 : AddTasks, h : HandleTasks]
  /\ writes = <<>>

\* add_filter from its first line to the await of its reply_text.
AddFilterStart(t) ==
  LET u == tasks[t]
  IN  /\ u.handler = "add_filter"
      /\ u.pc = "start"
      /\ IF ~u.replied.present
         THEN /\ tasks' = [tasks EXCEPT ![t].pc = "await",
                                        ![t].out = <<Reply("need_reply", <<>>)>>]
              /\ UNCHANGED <<store, writes>>
         ELSE IF ~HasArgs(u.text)
         THEN /\ tasks' = [tasks EXCEPT ![t].pc = "await",
                                        ![t].out = <<Reply("usage", <<>>)>>]
              /\ UNCHANGED <<store, writes>>
         ELSE LET filter_data == filter_data_of[u.chat_id, u.text, u.replied]
              IN  /\ store' = replace_one(store, u.chat_id, filter_data.keyword,
                                          filter_data)
                  /\ writes' = Append(writes, t)
                  /\ tasks' = [tasks EXCEPT
                       ![t].pc = "await",
                       ![t].doc = filter_data,
                       ![t].out = <<Reply("saved", <<filter_data.keyword>>)>>]
      /\ UNCHANGED <<last, replies, sent, exc, codecVars>>

\* handle_message from its first line to the await of the send, or to its
\* end when the loop makes no send; all_filters: the cursor's order.
HandleMessageStart(t, all_filters) ==
  LET u == tasks[t]
      r == ScanFrom(all_filters, 1, Lower(u.text), u.chat_id, u.failed)
  IN  /\ u.handler = "handle_message"
      /\ u.pc = "start"
      /\ tasks' = IF ~Truthy(u.text) THEN [tasks EXCEPT ![t].pc = "done"]
                  ELSE [tasks EXCEPT
                          ![t].pc = IF r.sends = <<>> THEN "done" ELSE "await",
                          ![t].doc = r.matched,
                          ![t].out = r.sends]
      /\ UNCHANGED <<writes, botVars, codecVars>>

\* The awaited reply_text or send returns, or raises into the except
\* clause, and the handler runs to its end.
Resume(t) ==
  /\ tasks[t].pc = "await"
  /\ tasks' = [tasks EXCEPT ![t].pc = "done"]
  /\ UNCHANGED <<writes, botVars, codecVars>>

NextTasks ==
  \/ \E t \in TaskIds : AddFilterStart(t)
  \/ \E t \in TaskIds : \E o \in CursorOrders(find(store, tasks[t].chat_id)) :
       HandleMessageStart(t, o)
  \/ \E t \in TaskIds : Resume(t)

SpecTasks == InitTasks /\ [][NextTasks]_vars

(***************************************************************************)
(* Properties of the bot, checked under Spec.                              *)
(***************************************************************************)
\* The documents stored for conversation c.
DocsOf(coll, c) == {d \in coll : d.chat_id = c}

\* The last update was an /add_filter that reached the upsert.
Added == last.op = "add_filter" /\ last.built # NoDoc

\* The last update was a text message the scan was run for.
Handled == last.op = "handle_message"

\* Position of the first document of the cursor whose keyword is a
\* substring of the lower-cased text, 0 when there is none.
FirstHit(scan, msg_text) ==
  LET hits == {i \in 1..Len(scan) : Find(Lower(msg_text), scan[i].keyword) # 0}
  IN  IF hits = {} THEN 0
      ELSE CHOOSE i \in hits : \A j \in hits : i <= j

\* C1: the store holds at most one record per (conversation, lower-cased
\* keyword), and after an add-filter request the record stored under its
\* key is exactly the record that request built, whatever was stored under
\* the key before.
C1_OneRecordPerKey ==
  /\ \A d, e \in store :
       d.chat_id = e.chat_id /\ Lower(d.keyword) = Lower(e.keyword) => d = e
  /\ Added =>
       /\ last.built = BuildFilter(last.chat_id, last.text, last.replied)
       /\ {d \in store : d.chat_id = last.chat_id
                         /\ d.keyword = last.built.keyword} = {last.built}

\* C1 witness: a second add-filter for a key replaced a record that
\* differed from the new one in text, caption, file id, file type and
\* buttons.
C1_Witness ==
  /\ Added
  /\ last.prior = "all_differ"
  /\ last.built \in store

\* C2: handle_message selects the first record, in the order the cursor
\* yields the conversation's records, whose keyword is a substring of the
\* lower-cased text, and makes at most one send, that of the selected
\* record.
C2_FirstMatchOnly ==
  Handled =>
    /\ Len(sent) <= 1
    /\ {last.scan[i] : i \in 1..Len(last.scan)} = DocsOf(store, last.chat_id)
    /\ LET h == FirstHit(last.scan, last.text)
       IN  /\ last.matched = IF h = 0 THEN NoDoc ELSE last.scan[h]
           /\ sent # <<>> => /\ h # 0
                             /\ sent[1].content \in {last.scan[h].text, last.scan[h].file_id}

\* C2 witness: two stored keywords of the conversation occur in the text,
\* and exactly one send was made, for the first record of the cursor.
C2_Witness ==
  /\ Handled
  /\ Len(last.scan) = 2
  /\ \A i \in 1..2 : Find(Lower(last.text), last.scan[i].keyword) # 0
  /\ Len(sent) = 1
  /\ last.matched = last.scan[1]
  /\ last.scan[2].text # last.scan[1].text

\* C3: matching is by substring and ignores case: add-filter stores the
\* keyword lower-cased, a record is selected iff some stored keyword of the
\* conversation is a substring of the lower-cased text, and nothing is
\* sent when none is.
C3_SubstringIgnoringCase ==
  /\ Added =>
       /\ last.built.keyword = Lower(Arg0(last.text))
       /\ last.built \in store
  /\ Handled =>
       /\ last.matched # NoDoc <=>
            \E d \in DocsOf(store, last.chat_id) :
              Find(Lower(last.text), d.keyword) # 0
       /\ last.matched = NoDoc => sent = <<>>

\* C3 witness: a text with upper-case letters that holds the keyword only
\* after lower-casing, and is longer than the keyword, got a send.
C3_Witness ==
  /\ Handled
  /\ last.matched # NoDoc
  /\ Find(last.text, last.matched.keyword) = 0
  /\ Len(last.text) > Len(last.matched.keyword)
  /\ Len(sent) = 1

\* C4: a request in one conversation leaves the records of every other
\* conversation as they were, and a message dispatches only a record
\* stored under its own conversation, to that conversation.
C4_ScopedPerConversation ==
  [][/\ \A c \in Chats : c # last'.chat_id => DocsOf(store', c) = DocsOf(store, c)
     /\ last'.op = "handle_message" /\ last'.matched # NoDoc =>
          /\ last'.matched.chat_id = last'.chat_id
          /\ last'.matched \in store
     /\ \A i \in 1..Len(sent') : sent'[i].chat_id = last'.chat_id]_vars

\* C4 witness: both conversations hold a record for the same keyword with
\* different content, and a message in one got its own record sent.
C4_Witness ==
  /\ Handled
  /\ Len(sent) = 1
  /\ \E d \in store :
       /\ d.chat_id # last.chat_id
       /\ d.keyword = last.matched.keyword
       /\ d.text # last.matched.text

\* C5: a delete-filter request for a pair with no stored record answers
\* "not found" and leaves the store unchanged.
C5_DeleteMissing ==
  [][(/\ last'.op = "del_filter"
      /\ HasArgs(last'.text)
      /\ ~\E d \in store : /\ d.chat_id = last'.chat_id
                           /\ d.keyword = Lower(Arg0(last'.text)))
     => /\ store' = store
        /\ replies' = <<Reply("not_found", <<Lower(Arg0(last'.text))>>)>>]_vars

\* C5 witness: "not found" was answered while the other conversation
\* holds a record for that keyword.
C5_Witness ==
  /\ last.op = "del_filter"
  /\ Len(replies) = 1
  /\ replies[1].kind = "not_found"
  /\ \E d \in store : d.chat_id # last.chat_id /\ <<d.keyword>> = replies[1].keywords

\* What follows the keyword in the command: the command text after its
\* first word.
AfterKeyword(text) ==
  LET command_text == CommandText(text)
  IN  SubSeq(command_text, Len(FirstWord(command_text)) + 1, Len(command_text))

\* The text or caption of the replied message that add_filter reads.
BodyOf(replied_msg) ==
  IF Truthy(replied_msg.text_html) THEN replied_msg.text_html
  ELSE IF Truthy(replied_msg.caption_html) THEN replied_msg.caption_html
  ELSE <<>>

\* C6: when the text after the keyword carries button markup and the
\* replied text or caption embeds markup too, the stored buttons are the
\* command's buttons; when the command carries none, they are the replied
\* message's buttons.
C6_CommandButtonsWin ==
  Added =>
    LET cmd == extract_buttons(AfterKeyword(last.text)).buttons
        msg == extract_buttons(BodyOf(last.replied)).buttons
    IN  /\ cmd # <<>> /\ msg # <<>> => last.built.buttons = cmd
        /\ cmd = <<>> => last.built.buttons = msg

\* C7: no stored record of kind sticker has a caption.
C7_StickerNoCaption ==
  \A d \in store : d.file_type = "sticker" => ~Truthy(d.caption)

\* A string without "[".
NoBracket(s) == \A i \in 1..Len(s) : s[i] # "["

\* Every button of the list has a non-empty label without "]" and a
\* non-empty url without ")".
WellFormed(buttons) ==
  \A i \in 1..Len(buttons) :
    /\ buttons[i][1] # <<>>
    /\ buttons[i][2] # <<>>
    /\ \A j \in 1..Len(buttons[i][1]) : buttons[i][1][j] # "]"
    /\ \A j \in 1..Len(buttons[i][2]) : buttons[i][2][j] # ")"

\* The one text send the claim expects for a replied text message b.
ExpectedSend(b) ==
  /\ Len(sent) = 1
  /\ sent[1].method = "text"
  /\ sent[1].content = Strip(b.base)
  /\ sent[1].reply_markup.keyboard = [i \in 1..Len(b.buttons) |-> <<b.buttons[i]>>]

\* The conversation of the last message holds one record, the one an
\* /add_filter with text t replying to the text message b stores, and the
\* message contains the keyword of t.
OnlyRecordMatches(t, b) ==
  /\ Handled
  /\ HasArgs(t)
  /\ b.base # <<>>
  /\ DocsOf(store, last.chat_id) = {filter_data_of[last.chat_id, t, TextMsg(b)]}
  /\ Find(Lower(last.text), Lower(Arg0(t))) # 0

\* C8 as claimed: for every add-filter command and every replied text
\* message made of a non-empty base text and button markup, a message that
\* contains the keyword gets exactly one text send with the base text and
\* the embedded buttons.
C8_EndToEndAnyCommandAnyBase ==
  \A t \in AddTexts, b \in TextBodies :
    OnlyRecordMatches(t, b) => ExpectedSend(b)

\* C8: the same, for a command text without "[" and a base text without
\* "[" that has a character other than white space, followed by the markup
\* of buttons with non-empty labels and urls: the one text send carries the
\* base text stripped of surrounding white space and the embedded buttons
\* in order.
C8_EndToEnd ==
  \A t \in AddTexts, b \in TextBodies :
    (/\ OnlyRecordMatches(t, b)
     /\ NoBracket(CommandText(t))
     /\ NoBracket(b.base)
     /\ Strip(b.base) # <<>>
     /\ WellFormed(b.buttons))
    => ExpectedSend(b)

\* C8 witness: the only record of the conversation came from a command
\* without "[" replying to a text with a button, and a longer message that
\* holds the keyword in another case got the stripped text and the button.
C8_Witness ==
  \E t \in AddTexts, b \in TextBodies :
    /\ OnlyRecordMatches(t, b)
    /\ NoBracket(CommandText(t))
    /\ NoBracket(b.base)
    /\ Strip(b.base) # b.base
    /\ Len(b.buttons) = 1
    /\ WellFormed(b.buttons)
    /\ Find(last.text, Arg0(t)) = 0
    /\ ExpectedSend(b)

(***************************************************************************)
(* Properties of extract_buttons, checked under SpecCodec.                 *)
(***************************************************************************)
Extracted == cpc \in {"once", "twice"}

\* Labels without "]" and urls without ")".
Bracketless(buttons) ==
  \A i \in 1..Len(buttons) :
    /\ \A j \in 1..Len(buttons[i][1]) : buttons[i][1][j] # "]"
    /\ \A j \in 1..Len(buttons[i][2]) : buttons[i][2][j] # ")"

\* C9 as claimed: for every base text and every list of buttons with
\* labels without "]" and urls without ")", extracting from the base text
\* followed by the markup of the buttons returns that list.
C9_RoundTripAnyBase ==
  Extracted /\ Bracketless(craw.buttons) => cout1.buttons = craw.buttons

\* C9: for every base text without "[" and every list of buttons with
\* non-empty labels without "]" and non-empty urls without ")", extracting
\* from the base text followed by the markup of the buttons returns that
\* list in that order.
C9_RoundTrip ==
  Extracted /\ NoBracket(craw.base) /\ WellFormed(craw.buttons)
    => cout1.buttons = craw.buttons

\* C9 witness: two different buttons, one with "[" in its label, after a
\* non-empty base text without "[" came back in order.
C9_Witness ==
  /\ Extracted
  /\ craw.base # <<>>
  /\ NoBracket(craw.base)
  /\ Len(craw.buttons) = 2
  /\ craw.buttons[1] # craw.buttons[2]
  /\ ~NoBracket(craw.buttons[2][1])
  /\ WellFormed(craw.buttons)
  /\ cout1.buttons = craw.buttons

\* C10: when the raw text contains button markup, extracting again from
\* the clean text yields no button and the same clean text.
C10_Idempotent ==
  cpc = "twice" /\ cout1.buttons # <<>>
    => cout2.buttons = <<>> /\ cout2.clean = cout1.clean

(***************************************************************************)
(* Properties of updates handled concurrently, checked under SpecTasks.    *)
(***************************************************************************)
\* The record the /add_filter update of task u builds.
BuiltBy(u) == BuildFilter(u.chat_id, u.text, u.replied)

\* The two /add_filter updates name the same conversation and keyword.
SameKey ==
  /\ tasks["a1"].chat_id = tasks["a2"].chat_id
  /\ Lower(Arg0(tasks["a1"].text)) = Lower(Arg0(tasks["a2"].text))

\* The send s carries the content, caption and buttons of the record d.
SendOf(s, d) ==
  /\ s.content = IF s.method = "text" THEN d.text ELSE d.file_id
  /\ s.method # "text" => s.method = d.file_type
  /\ s.has_caption => s.caption = d.caption
  /\ s.reply_markup.keyboard = [i \in 1..Len(d.buttons) |-> <<d.buttons[i]>>]

\* C11: under every interleaving of two add-filter requests for the same
\* (conversation, keyword), once a request has written, the store holds
\* exactly one record for the key and it equals in full the record built
\* by the request that wrote last; a handle_message running concurrently
\* reads, and sends, the whole record of one of the two requests.
C11_LastWriterWins ==
  SameKey =>
    LET a1 == tasks["a1"]
        h == tasks["h"]
        key == Lower(Arg0(a1.text))
    IN  /\ writes # <<>> =>
             {d \in store : d.chat_id = a1.chat_id /\ d.keyword = key}
               = {BuiltBy(tasks[writes[Len(writes)]])}
        /\ writes = <<>> => store = {}
        /\ h.pc # "start" /\ h.doc # NoDoc =>
             /\ h.doc \in {BuiltBy(tasks["a1"]), BuiltBy(tasks["a2"])}
             /\ \A i \in 1..Len(h.out) : SendOf(h.out[i], h.doc)

\* C11 witness: both requests wrote records for one key that differ in
\* text, caption, file id, file type and buttons; the message handler read
\* the first writer's record before the second write and completed its
\* send after it, while the store holds the last writer's record alone.
C11_Witness ==
  /\ SameKey
  /\ Len(writes) = 2
  /\ LET old == BuiltBy(tasks[writes[1]])
         new == BuiltBy(tasks[writes[2]])
     IN  /\ old.text # new.text
         /\ old.caption # new.caption
         /\ old.file_id # new.file_id
         /\ old.file_type # new.file_type
         /\ old.buttons # new.buttons
         /\ store = {new}
         /\ tasks["h"].pc = "done"
         /\ tasks["h"].doc = old
         /\ Len(tasks["h"].out) = 1
  /\ \A t \in TaskIds : tasks[t].pc = "done"

(***************************************************************************)
(* Further properties of the bot, checked under Spec.                      *)
(***************************************************************************)
\* The record the scan of the last message selects, NoDoc when none.
Selected(scan, msg_text) ==
  IF FirstHit(scan, msg_text) = 0 THEN NoDoc
  ELSE scan[FirstHit(scan, msg_text)]

\* The record d has something to send: a media kind or a non-empty text.
HasBody(d) == d.file_type # NoType \/ (d.text # None /\ d.text # <<>>)

\* The last message selected a record and the transport raised on its send.
SendFailed == Handled /\ sent # <<>> /\ sent[1].failed

\* C12: handle_message never changes the store; when the transport raises
\* on the send of the matched record the handler still completes, with the
\* store unchanged and one attempt made, and the update handled next, in
\* this or another conversation, has its usual effect: a message is
\* scanned against the conversation's records and answered when the
\* selected record has a body, an add-filter stores its record, a
\* del-filter removes its key, a listing names the stored keywords.
C12_SendFailureAbsorbed ==
  [][/\ last'.op = "handle_message" =>
          /\ store' = store
          /\ replies' = <<>>
          /\ Len(sent') <= 1
     /\ SendFailed =>
          /\ last'.op = "handle_message" =>
               /\ {last'.scan[i] : i \in 1..Len(last'.scan)}
                    = DocsOf(store, last'.chat_id)
               /\ last'.matched = Selected(last'.scan, last'.text)
               /\ sent' # <<>> <=>
                    last'.matched # NoDoc /\ HasBody(last'.matched)
          /\ last'.op = "add_filter" /\ last'.built # NoDoc =>
               /\ last'.built \in store'
               /\ replies' = <<Reply("saved", <<last'.built.keyword>>)>>
          /\ last'.op = "del_filter" /\ HasArgs(last'.text) =>
               ~\E d \in store' : /\ d.chat_id = last'.chat_id
                                   /\ d.keyword = Lower(Arg0(last'.text))
          /\ last'.op = "list_filters" =>
               /\ Len(replies') = 1
               /\ {replies'[1].keywords[i] : i \in 1..Len(replies'[1].keywords)}
                    = {d.keyword : d \in DocsOf(store, last'.chat_id)}]_vars

\* C12 witness: the transport raised on the one send of a stored record
\* while both conversations hold records.
C12_Witness ==
  /\ SendFailed
  /\ Len(sent) = 1
  /\ last.matched \in store
  /\ \A c \in Chats : DocsOf(store, c) # {}

\* C13: every stored record has exactly one of a text and a media
\* reference.
C13_ExactlyOneBody ==
  \A d \in store : (d.text # None) # (d.file_type # NoType /\ d.file_id # None)

\* The keyboard made of the stored buttons: absent for no buttons, else
\* one row per button in order.
KeyboardOf(d) ==
  [present |-> d.buttons # <<>>,
   keyboard |-> [i \in 1..Len(d.buttons) |-> <<d.buttons[i]>>]]

\* C14: for the matched record, a media kind gives exactly one send of
\* that kind with the stored file reference and the stored buttons, with
\* the stored caption unless the kind is sticker, for which no caption is
\* passed; without a media kind a non-empty text gives exactly one text
\* send with the stored text and buttons; otherwise nothing is sent.
C14_Dispatch ==
  Handled /\ last.matched # NoDoc =>
    LET d == last.matched
    IN  IF d.file_type # NoType
        THEN /\ Len(sent) = 1
             /\ sent[1].method = d.file_type
             /\ sent[1].content = d.file_id
             /\ sent[1].reply_markup = KeyboardOf(d)
             /\ sent[1].chat_id = last.chat_id
             /\ IF d.file_type = "sticker" THEN ~sent[1].has_caption
                ELSE sent[1].has_caption /\ sent[1].caption = d.caption
        ELSE IF d.text # None /\ d.text # <<>>
        THEN /\ Len(sent) = 1
             /\ sent[1].method = "text"
             /\ sent[1].content = d.text
             /\ sent[1].reply_markup = KeyboardOf(d)
             /\ sent[1].chat_id = last.chat_id
             /\ ~sent[1].has_caption
        ELSE sent = <<>>

\* C14 witness: a sticker record stored with a caption and a button was
\* sent as a sticker with the button and without caption.
C14_Witness ==
  /\ Handled
  /\ last.matched.file_type = "sticker"
  /\ Truthy(last.matched.caption)
  /\ Len(sent) = 1
  /\ sent[1].method = "sticker"
  /\ ~sent[1].has_caption
  /\ sent[1].reply_markup.present

\* Nothing but white space follows the command word of the message.
NoKeyword(text) ==
  \A i \in (Len(FirstWord(text)) + 1)..Len(text) : IsSpace(text[i])

\* C18: an add-filter request without replied message or without keyword
\* and a del-filter request without keyword leave the store unchanged and
\* make exactly one reply, the request for a reply or the usage line, and
\* no stored record has an empty keyword.
C18_MissingArgument ==
  [][/\ last'.op = "add_filter" /\ ~last'.replied.present =>
          /\ store' = store
          /\ replies' = <<Reply("need_reply", <<>>)>>
          /\ sent' = <<>>
     /\ last'.op = "add_filter" /\ last'.replied.present /\ NoKeyword(last'.text) =>
          /\ store' = store
          /\ replies' = <<Reply("usage", <<>>)>>
          /\ sent' = <<>>
     /\ last'.op = "del_filter" /\ NoKeyword(last'.text) =>
          /\ store' = store
          /\ replies' = <<Reply("usage", <<>>)>>
          /\ sent' = <<>>
     /\ \A d \in store' : d.keyword # <<>>]_vars

\* C18 witness: an add-filter request replying to a message but without
\* keyword got the usage line while records are stored.
C18_Witness ==
  /\ last.op = "add_filter"
  /\ last.replied.present
  /\ NoKeyword(last.text)
  /\ replies = <<Reply("usage", <<>>)>>
  /\ DocsOf(store, last.chat_id) # {}

\* The records stored under the key the del-filter message text names in
\* conversation c.
Named(coll, c, text) ==
  {d \in coll : d.chat_id = c /\ d.keyword = Lower(Arg0(text))}

\* C19: a del-filter request for a stored (conversation, keyword) removes
\* the record of that key and no other and confirms the deletion; the
\* store changes in add-filter and del-filter requests only; and a
\* message is answered only from a record stored when it is handled, so a
\* deleted keyword selects nothing until it is added again.
C19_DeleteFrame ==
  [][/\ (/\ last'.op = "del_filter"
         /\ ~NoKeyword(last'.text)
         /\ Named(store, last'.chat_id, last'.text) # {}) =>
          /\ Cardinality(Named(store, last'.chat_id, last'.text)) = 1
          /\ store' = store \ Named(store, last'.chat_id, last'.text)
          /\ replies' = <<Reply("deleted", <<Lower(Arg0(last'.text))>>)>>
     /\ store' # store => last'.op \in {"add_filter", "del_filter"}
     /\ last'.op = "handle_message" /\ last'.matched # NoDoc =>
          last'.matched \in DocsOf(store, last'.chat_id)
     /\ last'.op = "handle_message" /\ last'.matched = NoDoc => sent' = <<>>]_vars

\* C19 witness: a deletion was confirmed and left the record the other
\* conversation holds for the same keyword.
C19_Witness ==
  /\ last.op = "del_filter"
  /\ replies = <<Reply("deleted", <<Lower(Arg0(last.text))>>)>>
  /\ Named(store, last.chat_id, last.text) = {}
  /\ \E d \in store : d.chat_id # last.chat_id /\ d.keyword = Lower(Arg0(last.text))

\* C20: the scan ends at the first record of the cursor whose keyword
\* occurs in the text: when that record has neither media kind nor text
\* nothing is sent, and when its send fails that failed attempt is the
\* only one, whatever later records match.
C20_StopsAtFirstMatch ==
  Handled /\ FirstHit(last.scan, last.text) # 0 =>
    LET first == last.scan[FirstHit(last.scan, last.text)]
    IN  /\ ~HasBody(first) => sent = <<>>
        /\ HasBody(first) => Len(sent) = 1 /\ SendOf(sent[1], first)
        /\ \A i \in 1..Len(sent) : sent[i].failed => Len(sent) = 1

\* C20 witness: the first record of the cursor matched and has neither
\* media kind nor text, the second matched too and has a text, and
\* nothing was sent.
C20_Witness ==
  /\ Handled
  /\ Len(last.scan) = 2
  /\ \A i \in 1..2 : Find(Lower(last.text), last.scan[i].keyword) # 0
  /\ ~HasBody(last.scan[1])
  /\ HasBody(last.scan[2])
  /\ sent = <<>>

(***************************************************************************)
(* Properties of the record add_filter builds, checked under SpecAuthor.   *)
(***************************************************************************)
\* C15: when the command text carries button markup and the replied
\* message has neither text nor caption, the stored buttons are the
\* command's buttons; stored buttons are empty only when neither the
\* command nor the replied text or caption carries button markup.
C15_CommandButtonsAnyShape ==
  Added =>
    LET cmd == extract_buttons(AfterKeyword(last.text)).buttons
        msg == extract_buttons(BodyOf(last.replied)).buttons
    IN  /\ (/\ cmd # <<>>
            /\ ~Truthy(last.replied.text_html)
            /\ ~Truthy(last.replied.caption_html)) => last.built.buttons = cmd
        /\ last.built.buttons = <<>> => cmd = <<>> /\ msg = <<>>

\* The order of precedence of the media slots.
SlotOrder ==
  <<"photo", "video", "document", "animation", "sticker", "audio", "voice">>

\* Position of kind k in the order of precedence.
Rank(k) == CHOOSE i \in 1..Len(SlotOrder) : SlotOrder[i] = k

\* C16: the stored media kind is that of the populated slot that comes
\* first in the order photo, video, document, animation, sticker, audio,
\* voice, whatever the text and caption, and the stored reference is that
\* slot's file; with no slot populated the record has no kind and no
\* reference.
C16_FirstPopulatedSlot ==
  Added =>
    LET media == last.replied.media
        d == last.built
    IN  IF media = {}
        THEN d.file_type = NoType /\ d.file_id = None
        ELSE /\ d.file_type \in media
             /\ \A k \in media : Rank(d.file_type) <= Rank(k)
             /\ d.file_id = FileId(d.file_type)

\* C16 witness: a replied message with the document and animation slots
\* populated, and a caption, was stored as a document.
C16_Witness ==
  /\ Added
  /\ last.replied.media = {"document", "animation"}
  /\ Truthy(last.replied.caption_html)
  /\ last.built.file_type = "document"
  /\ last.built.file_id = FileId("document")
  /\ last.built \in store

(***************************************************************************)
(* Properties of store failures, checked under SpecFaults.                 *)
(***************************************************************************)
\* C17: when a store call raises during a request, the exception does not
\* leave the handler, nothing is sent or replied for that update, and the
\* store is left as it was.
C17_StoreFailureSkipped ==
  [][exc'.store_error =>
       /\ ~exc'.propagated
       /\ sent' = <<>>
       /\ replies' = <<>>
       /\ store' = store]_vars

====
